---- MODULE Spec2Model ----
(***************************************************************************)
(* Model of the session supervisor of src/app.py (class BrowserUseWebUI):  *)
(* the session registry, the HTTP handlers create/start/stop, the          *)
(* background automation task _run_browser_automation with its screenshot  *)
(* sampler capture_screenshots, the log broadcast _log_to_session and the  *)
(* websocket handler websocket_endpoint.                                   *)
(*                                                                         *)
(* Everything runs on one asyncio event loop: the code between two awaits  *)
(* is one atomic step, and every await is a point where any other ready    *)
(* task (handler, runner, sampler) may run.  Each action below is one such *)
(* block; a process's pc names the await it is suspended at.               *)
(***************************************************************************)
EXTENDS Integers, Sequences, FiniteSets, TLC

\* ------------------------------------------------------------------ bounds
MaxSessions == 1      \* create calls that are accepted
ApiSessions == 2      \* create calls that are accepted where responses are kept (SpecApi)
MaxPast == 25         \* failed runs a session has behind it at the start of SpecLong
MaxRuns == 2          \* background tasks spawned by start, over all sessions
MaxStops == 1         \* DELETE requests
DupStops == 2         \* DELETE requests where stops overlap (SpecStops)
MaxObservers == 2     \* websocket connections
ObsRuns == 1          \* background tasks spawned while websockets watch (SpecObs)
MaxShots == 1         \* screenshot events delivered to one observer
MaxUpdates == 1       \* status_update events delivered to one observer

IdLimit == IF ApiSessions > MaxSessions THEN ApiSessions ELSE MaxSessions
SessionIds == 1..IdLimit            \* ids issued by create, in order of issue
AnyId == 0..IdLimit                 \* ids a client may put in a URL; 0 is never issued
Runs == 1..(IF MaxRuns > ObsRuns THEN MaxRuns ELSE ObsRuns)
Stops == 1..(IF DupStops > MaxStops THEN DupStops ELSE MaxStops)
Observers == 1..MaxObservers
Tasks == {"", "go"}                 \* request.get("task", ""): empty or not
None == 0                           \* Python None for a handle field / dict miss

VARIABLES
    nextId,      \* the next id uuid.uuid4() yields (ids are never repeated)
    sessions,    \* keys of self.sessions
    status,      \* BrowserSession.status, per session object
    task,        \* BrowserSession.task
    logs,        \* BrowserSession.logs
    browser,     \* BrowserSession.browser: None or the context opened by run r
    page,        \* BrowserSession.page: None or the page opened by run r
    conn,        \* self.active_connections: session id -> websocket or None
    rpc,         \* per run: where _run_browser_automation is suspended
    rsess,       \* per run: its session_id argument
    ropen,       \* per run: the resources it opened that are still open
    raised,      \* per run: an exception reached its "except Exception"
    rwait,       \* per run: the websocket whose send_json it is suspended in
    spc,         \* per run: where its capture_screenshots task is suspended
    kpc,         \* per DELETE request: where stop_session is suspended
    ksess,       \* per DELETE request: its session_id
    wpc,         \* per websocket: where websocket_endpoint is suspended
    wsess,       \* per websocket: its session_id
    peer,        \* per websocket: is the remote end still there
    since,       \* per websocket: Len(logs) of its session when it registered
    recv,        \* per websocket: the log events sent to it, in order
    shots,       \* per websocket: screenshot events sent to it
    updates,     \* per websocket: status_update events sent to it
    accepts,     \* per session: start calls accepted while its status was idle
    resp         \* the response to the last HTTP request, where responses are kept

regvars == <<nextId, sessions, task>>
sessvars == <<status, logs, browser, page>>
runvars == <<rpc, rsess, ropen, raised, rwait, spc>>
stopvars == <<kpc, ksess>>
wsvars == <<wpc, wsess, peer, since>>
outvars == <<recv, shots, updates>>
vars == <<regvars, sessvars, conn, runvars, stopvars, wsvars, outvars, accepts, resp>>

\* An HTTP response: the handler, the status code, and the session id the
\* body carries (0: none).
Response(op, code, id) == [op |-> op, code |-> code, id |-> id]

NoResponse == Response("none", 0, 0)       \* no request answered yet
Unrecorded == Response("unrecorded", 0, 0) \* responses are not kept in this run

\* No request in progress, no task, no websocket, no handle held.
Quiet ==
    /\ browser = [s \in SessionIds |-> None]
    /\ page = [s \in SessionIds |-> None]
    /\ conn = [s \in AnyId |-> None]
    /\ rpc = [r \in Runs |-> "unborn"]
    /\ rsess = [r \in Runs |-> 0]
    /\ ropen = [r \in Runs |-> {}]
    /\ raised = [r \in Runs |-> FALSE]
    /\ rwait = [r \in Runs |-> None]
    /\ spc = [r \in Runs |-> "none"]
    /\ kpc = [k \in Stops |-> "idle"]
    /\ ksess = [k \in Stops |-> 0]
    /\ wpc = [w \in Observers |-> "idle"]
    /\ wsess = [w \in Observers |-> 0]
    /\ peer = [w \in Observers |-> "open"]
    /\ since = [w \in Observers |-> 0]
    /\ recv = [w \in Observers |-> <<>>]
    /\ shots = [w \in Observers |-> 0]
    /\ updates = [w \in Observers |-> 0]

\* The state after BrowserUseWebUI() is constructed, all but resp.
Boot ==
    /\ nextId = 1
    /\ sessions = {}
    /\ status = [s \in SessionIds |-> "none"]
    /\ task = [s \in SessionIds |-> ""]
    /\ logs = [s \in SessionIds |-> <<>>]
    /\ accepts = [s \in SessionIds |-> 0]
    /\ Quiet

Init == Boot /\ resp = Unrecorded

\* The same start, with the responses of the HTTP handlers kept.
InitApi == Boot /\ resp = NoResponse

\* The handler returns x (or raises the HTTPException x stands for).
Respond(x) == resp' = IF resp = Unrecorded THEN resp ELSE x

\* ------------------------------------------------------ _log_to_session
\* A log entry; run stands for what tells two entries apart in the code
\* (timestamp and message text).
Entry(level, msg, r) == [level |-> level, msg |-> msg, run |-> r]

\* _log_to_session appending only when the send does not raise.
LogAppendIfSent(s, e) ==
    IF s \in sessions /\ ~(conn[s] # None /\ peer[conn[s]] = "gone")
    THEN [logs EXCEPT ![s] = Append(@, e)] ELSE logs

\* _log_to_session appending to the log of every session.
LogAppendAll(s, e) ==
    [b \in SessionIds |-> IF b \in sessions THEN Append(logs[b], e) ELSE logs[b]]

\* The log after _log_to_session(s, ...): nothing for an id that is not in
\* self.sessions, else the entry appended.
LogAppend(s, e) ==
    IF s \in sessions THEN [logs EXCEPT ![s] = Append(@, e)] ELSE logs

\* The websocket the entry is sent to: the one stored under the session id in
\* active_connections, if any; a send to a peer that is gone raises and the
\* bare except swallows it.
LogTarget(s) ==
    IF s \in sessions /\ conn[s] # None /\ peer[conn[s]] = "open"
    THEN {conn[s]} ELSE {}

LogBroadcast(s, e) ==
    [w \in Observers |-> IF w \in LogTarget(s) THEN Append(recv[w], e) ELSE recv[w]]

\* "await websocket.send_json(...)" in _log_to_session: the caller is suspended
\* until the send returns or raises.  A send to a peer that has stopped reading
\* does neither while the peer stays: the websocket the caller waits for.
LogBlocks(s) ==
    IF s \in sessions /\ conn[s] # None /\ peer[conn[s]] = "stalled"
    THEN conn[s] ELSE None

LogToSession(s, e) ==
    /\ logs' = LogAppend(s, e)
    /\ recv' = LogBroadcast(s, e)

\* The log k runs leave that each raised in chromium.launch(): "starting" and
\* the error line of each; run -i stands for the i-th of them.
PastLog(k) ==
    [i \in 1..(2 * k) |->
        IF i % 2 = 1 THEN Entry("info", "starting", 0 - ((i + 1) \div 2))
                     ELSE Entry("error", "error", 0 - (i \div 2))]

\* Session 1 was created and started k times in a row, each run ending with
\* the browser failing to launch: status error, nothing held, 2k log entries.
Past(k) ==
    /\ nextId = 2
    /\ sessions = {1}
    /\ status = [s \in SessionIds |-> IF s = 1 THEN "error" ELSE "none"]
    /\ task = [s \in SessionIds |-> IF s = 1 THEN "go" ELSE ""]
    /\ logs = [s \in SessionIds |-> IF s = 1 THEN PastLog(k) ELSE <<>>]
    /\ accepts = [s \in SessionIds |-> IF s = 1 THEN 1 ELSE 0]
    /\ Quiet
    /\ resp = Unrecorded

\* A session with a log about as long as the snapshot limit.
InitLong == \E k \in (MaxPast - 2)..MaxPast : Past(k)

\* A session that has failed once, before a second one is created.
InitIso == Past(1)

\* ------------------------------------------------------ BrowserSession
LogLimit == 50                      \* to_dict: self.logs[-50:]

\* The Python slice q[:n] for n > 0: the first n elements, all of q if it has
\* fewer.
FirstN(q, n) == IF Len(q) <= n THEN q ELSE SubSeq(q, 1, n)

\* The Python slice q[-n:] for n > 0: the last n elements, all of q if it has
\* fewer.
LastN(q, n) == IF Len(q) <= n THEN q ELSE SubSeq(q, Len(q) - n + 1, Len(q))

\* to_dict with the task left out of the snapshot.
ToDictTaskless(s) ==
    [session_id |-> s, status |-> status[s], task |-> "",
     logs |-> LastN(logs[s], LogLimit)]

\* BrowserSession.to_dict(), without created_at (set once, never changed).
ToDict(s) ==
    [session_id |-> s, status |-> status[s], task |-> task[s],
     logs |-> LastN(logs[s], LogLimit)]

\* The values of self.sessions in dict order: insertion order, which is the
\* order of the ids issued.
RECURSIVE Values(_)
Values(S) ==
    IF S = {} THEN <<>>
    ELSE LET m == CHOOSE x \in S : \A y \in S : x <= y
         IN <<m>> \o Values(S \ {m})

\* GET /api/sessions
ListSessions ==
    [sessions |-> [i \in 1..Len(Values(sessions)) |-> ToDict(Values(sessions)[i])],
     total |-> Cardinality(sessions)]

\* GET /health
HealthCheck == [status |-> "healthy", sessions |-> Cardinality(sessions)]

\* ------------------------------------------------------ HTTP handlers
\* create_session without the "if not task" check.
CreateUnchecked(t) ==
    /\ nextId \in SessionIds
    /\ Respond(Response("create", 200, nextId))
    /\ sessions' = sessions \cup {nextId}
    /\ status' = [status EXCEPT ![nextId] = "idle"]
    /\ task' = [task EXCEPT ![nextId] = t]
    /\ nextId' = nextId + 1
    /\ UNCHANGED <<logs, browser, page, conn, runvars, stopvars, wsvars, outvars, accepts>>

\* POST /api/sessions
CreateSession(t) ==
    /\ IF t = ""
       THEN /\ Respond(Response("create", 400, 0))
            /\ UNCHANGED <<regvars, status>>
       ELSE /\ nextId \in SessionIds
            /\ Respond(Response("create", 200, nextId))
            /\ sessions' = sessions \cup {nextId}
            /\ status' = [status EXCEPT ![nextId] = "idle"]
            /\ task' = [task EXCEPT ![nextId] = t]
            /\ nextId' = nextId + 1
    /\ UNCHANGED <<logs, browser, page, conn, runvars, stopvars, wsvars, outvars, accepts>>

\* The status check of start_session: 400 "Session already running".
StartRejects(s) == status[s] = "running"

\* start_session without the membership check.
StartUnchecked(s, r) ==
    /\ s < nextId
    /\ rpc[r] = "unborn"
    /\ \A q \in Runs : q < r => rpc[q] # "unborn"
    /\ Respond(Response("start", 200, 0))
    /\ rpc' = [rpc EXCEPT ![r] = "spawned"]
    /\ rsess' = [rsess EXCEPT ![r] = s]
    /\ UNCHANGED <<ropen, raised, rwait, spc, accepts>>
    /\ UNCHANGED <<regvars, sessvars, conn, stopvars, wsvars, outvars>>

\* POST /api/sessions/{id}/start: no await between the checks and create_task.
\* r is the task create_task makes: the first one not yet made.
StartSession(s, r) ==
    /\ s < nextId
    /\ rpc[r] = "unborn"
    /\ \A q \in Runs : q < r => rpc[q] # "unborn"
    /\ IF s \notin sessions
       THEN /\ Respond(Response("start", 404, 0))
            /\ UNCHANGED <<runvars, accepts>>
       ELSE IF StartRejects(s)
       THEN /\ Respond(Response("start", 400, 0))
            /\ UNCHANGED <<runvars, accepts>>
       ELSE /\ Respond(Response("start", 200, 0))
            /\ rpc' = [rpc EXCEPT ![r] = "spawned"]
            /\ rsess' = [rsess EXCEPT ![r] = s]
            /\ accepts' = IF status[s] = "idle"
                          THEN [accepts EXCEPT ![s] = @ + 1] ELSE accepts
            /\ UNCHANGED <<ropen, raised, rwait, spc>>
    /\ UNCHANGED <<regvars, sessvars, conn, stopvars, wsvars, outvars>>

\* DELETE /api/sessions/{id}.  page.close() and browser.close() are awaited:
\* the handler is suspended there, between its membership check and its del.
\* close() takes effect when it is called; what it raises is swallowed.
ClosePage(o, h) ==
    IF h = None THEN o ELSE [o EXCEPT ![h] = @ \ {"page"}]

\* session.browser holds the browser context; closing a context closes its pages.
CloseContext(o, h) ==
    IF h = None THEN o ELSE [o EXCEPT ![h] = @ \ {"context", "page"}]

\* stop_session answering without the del.
StopKeeps(k, s) ==
    /\ sessions' = sessions
    /\ kpc' = [kpc EXCEPT ![k] = "returned"]
    /\ Respond(Response("stop", 200, 0))

\* del self.sessions[session_id]; a missing key raises KeyError (a 500).
StopDelete(k, s) ==
    IF s \in sessions
    THEN /\ sessions' = sessions \ {s}
         /\ kpc' = [kpc EXCEPT ![k] = "returned"]
         /\ Respond(Response("stop", 200, 0))
    ELSE /\ sessions' = sessions
         /\ kpc' = [kpc EXCEPT ![k] = "keyerror"]
         /\ Respond(Response("stop", 500, 0))

StopBegin(k, s) ==
    /\ kpc[k] = "idle"
    /\ s < nextId
    /\ ksess' = [ksess EXCEPT ![k] = s]
    /\ IF s \notin sessions
       THEN /\ kpc' = [kpc EXCEPT ![k] = "notfound"]
            /\ Respond(Response("stop", 404, 0))
            /\ UNCHANGED <<sessions, ropen>>
       ELSE IF page[s] # None
       THEN /\ ropen' = ClosePage(ropen, page[s])
            /\ kpc' = [kpc EXCEPT ![k] = "page_closing"]
            /\ UNCHANGED <<sessions, resp>>
       ELSE IF browser[s] # None
       THEN /\ ropen' = CloseContext(ropen, browser[s])
            /\ kpc' = [kpc EXCEPT ![k] = "browser_closing"]
            /\ UNCHANGED <<sessions, resp>>
       ELSE /\ StopDelete(k, s)
            /\ UNCHANGED ropen
    /\ UNCHANGED <<nextId, task, sessvars, conn, rpc, rsess, rwait, raised, spc, wsvars, outvars, accepts>>

\* page.close() has returned: on to "if session.browser".
StopPageClosed(k) ==
    /\ kpc[k] = "page_closing"
    /\ IF browser[ksess[k]] # None
       THEN /\ ropen' = CloseContext(ropen, browser[ksess[k]])
            /\ kpc' = [kpc EXCEPT ![k] = "browser_closing"]
            /\ UNCHANGED <<sessions, resp>>
       ELSE /\ StopDelete(k, ksess[k])
            /\ UNCHANGED ropen
    /\ UNCHANGED <<nextId, task, sessvars, conn, rpc, rsess, rwait, raised, spc, ksess, wsvars, outvars, accepts>>

\* browser.close() has returned: on to the del.
StopBrowserClosed(k) ==
    /\ kpc[k] = "browser_closing"
    /\ StopDelete(k, ksess[k])
    /\ UNCHANGED <<nextId, task, sessvars, conn, runvars, ksess, wsvars, outvars, accepts>>

\* ------------------------------------------- _run_browser_automation
\* First step of the task start_session spawned: the lookup of the session
\* (outside the try: a KeyError ends the task, "crashed"), status = "running" and the
\* first log line.
RunBegin(r) ==
    /\ rpc[r] = "spawned"
    /\ IF rsess[r] \notin sessions
       THEN /\ rpc' = [rpc EXCEPT ![r] = "crashed"]
            /\ UNCHANGED <<status, logs, recv, rwait>>
       ELSE /\ status' = [status EXCEPT ![rsess[r]] = "running"]
            /\ LogToSession(rsess[r], Entry("info", "starting", r))
            /\ rwait' = [rwait EXCEPT ![r] = LogBlocks(rsess[r])]
            /\ rpc' = [rpc EXCEPT ![r] = "launch"]
    /\ UNCHANGED <<regvars, resp, browser, page, conn, rsess, raised, ropen, spc, stopvars,
                   wsvars, shots, updates, accepts>>

\* async_playwright().start() and chromium.launch() returned.
RunLaunch(r) ==
    /\ rpc[r] = "launch" /\ rwait[r] = None
    /\ ropen' = [ropen EXCEPT ![r] = @ \cup {"browser"}]
    /\ rpc' = [rpc EXCEPT ![r] = "context"]
    /\ UNCHANGED <<regvars, resp, sessvars, conn, rsess, rwait, raised, spc, stopvars, wsvars, outvars, accepts>>

\* browser.new_context() returned; session.browser = browser_context.
RunNewContext(r) ==
    /\ rpc[r] = "context" /\ rwait[r] = None
    /\ ropen' = [ropen EXCEPT ![r] = @ \cup {"context"}]
    /\ browser' = [browser EXCEPT ![rsess[r]] = r]
    /\ rpc' = [rpc EXCEPT ![r] = "page"]
    /\ UNCHANGED <<regvars, resp, status, logs, page, conn, rsess, rwait, raised, spc, stopvars, wsvars,
                   outvars, accepts>>

\* browser_context.new_page() returned; session.page = it; "Browser initialized".
RunNewPage(r) ==
    /\ rpc[r] = "page" /\ rwait[r] = None
    /\ ropen' = [ropen EXCEPT ![r] = @ \cup {"page"}]
    /\ page' = [page EXCEPT ![rsess[r]] = r]
    /\ LogToSession(rsess[r], Entry("info", "initialized", r))
    /\ rwait' = [rwait EXCEPT ![r] = LogBlocks(rsess[r])]
    /\ rpc' = [rpc EXCEPT ![r] = "setup"]
    /\ UNCHANGED <<regvars, resp, status, browser, conn, rsess, raised, spc, stopvars, wsvars,
                   shots, updates, accepts>>

\* Controller(), Agent(...), "Starting task".
RunSetup(r) ==
    /\ rpc[r] = "setup" /\ rwait[r] = None
    /\ LogToSession(rsess[r], Entry("info", "task", r))
    /\ rwait' = [rwait EXCEPT ![r] = LogBlocks(rsess[r])]
    /\ rpc' = [rpc EXCEPT ![r] = "monitor"]
    /\ UNCHANGED <<regvars, resp, status, browser, page, conn, rsess, raised, ropen, spc, stopvars,
                   wsvars, shots, updates, accepts>>

\* asyncio.create_task(capture_screenshots()), then agent.run() is awaited.
RunMonitor(r) ==
    /\ rpc[r] = "monitor" /\ rwait[r] = None
    /\ spc' = [spc EXCEPT ![r] = "loop"]
    /\ rpc' = [rpc EXCEPT ![r] = "agent"]
    /\ UNCHANGED <<regvars, resp, sessvars, conn, rsess, rwait, raised, ropen, stopvars, wsvars, outvars, accepts>>

\* RunAgentDone without the assignment to session.status.
RunAgentDoneUnmarked(r) ==
    /\ rpc[r] = "agent" /\ rwait[r] = None
    /\ LogToSession(rsess[r], Entry("success", "completed", r))
    /\ rwait' = [rwait EXCEPT ![r] = LogBlocks(rsess[r])]
    /\ rpc' = [rpc EXCEPT ![r] = "finally"]
    /\ UNCHANGED <<regvars, resp, status, browser, page, conn, rsess, raised, ropen, spc,
                   stopvars, wsvars, shots, updates, accepts>>

\* agent.run() returned: status = "completed" and the success line.
RunAgentDone(r) ==
    /\ rpc[r] = "agent" /\ rwait[r] = None
    /\ status' = [status EXCEPT ![rsess[r]] = "completed"]
    /\ LogToSession(rsess[r], Entry("success", "completed", r))
    /\ rwait' = [rwait EXCEPT ![r] = LogBlocks(rsess[r])]
    /\ rpc' = [rpc EXCEPT ![r] = "finally"]
    /\ UNCHANGED <<regvars, resp, browser, page, conn, rsess, raised, ropen, spc, stopvars, wsvars,
                   shots, updates, accepts>>

\* The awaits inside the try that call a collaborator, each of which may raise.
Raising == {"launch", "context", "page", "setup", "agent"}

\* RunExcept with an except clause that does not match: the exception leaves
\* the task.
RunExceptEscapes(r) ==
    /\ rpc[r] \in Raising /\ rwait[r] = None
    /\ raised' = [raised EXCEPT ![r] = TRUE]
    /\ rpc' = [rpc EXCEPT ![r] = "crashed"]
    /\ UNCHANGED <<regvars, resp, sessvars, conn, rsess, rwait, ropen, spc, stopvars, wsvars, outvars, accepts>>

\* except Exception: status = "error" and the error line.
RunExcept(r) ==
    /\ rpc[r] \in Raising /\ rwait[r] = None
    /\ raised' = [raised EXCEPT ![r] = TRUE]
    /\ status' = [status EXCEPT ![rsess[r]] = "error"]
    /\ LogToSession(rsess[r], Entry("error", "error", r))
    /\ rwait' = [rwait EXCEPT ![r] = LogBlocks(rsess[r])]
    /\ rpc' = [rpc EXCEPT ![r] = "finally"]
    /\ UNCHANGED <<regvars, resp, browser, page, conn, rsess, ropen, spc, stopvars, wsvars,
                   shots, updates, accepts>>

\* What the finally block closes: session.page, whoever opened it.
FinallyCloses(o, s) == ClosePage(o, page[s])

\* finally: if session.page: await session.page.close().
RunFinally(r) ==
    /\ rpc[r] = "finally" /\ rwait[r] = None
    /\ ropen' = FinallyCloses(ropen, rsess[r])
    /\ rpc' = [rpc EXCEPT ![r] = "done"]
    /\ UNCHANGED <<regvars, resp, sessvars, conn, rsess, rwait, raised, spc, stopvars, wsvars, outvars, accepts>>

\* ------------------------------------------------ capture_screenshots
\* One pass of "while session.status == 'running'" up to the screenshot: the
\* loop ends when the status is anything else.  page.screenshot() returns the
\* image of an open page, or raises (always, on a closed page): the loop's
\* "except Exception" writes that to the process logger and the loop sleeps
\* ("failed": asleep after a pass that raised).
SamplerCheck(r) ==
    /\ spc[r] \in {"loop", "failed"}
    /\ IF status[rsess[r]] # "running"
       THEN spc' = [spc EXCEPT ![r] = "done"]
       ELSE IF page[rsess[r]] = None
       THEN spc' = [spc EXCEPT ![r] = "loop"]
       ELSE \/ /\ "page" \in ropen[page[rsess[r]]]
               /\ spc' = [spc EXCEPT ![r] = "shot"]
            \/ spc' = [spc EXCEPT ![r] = "failed"]
    /\ UNCHANGED <<regvars, resp, sessvars, conn, rpc, rsess, rwait, raised, ropen, stopvars, wsvars,
                   outvars, accepts>>

\* The websocket a screenshot is sent to: the one stored under the session
\* id, whether or not the session is still in self.sessions.
ShotTarget(s) ==
    IF conn[s] # None /\ peer[conn[s]] = "open" THEN {conn[s]} ELSE {}

\* The screenshot is taken: send it, then sleep(2).  The send is awaited: the
\* sampler stays here while the peer does not read.
SamplerSend(r) ==
    /\ spc[r] = "shot"
    /\ conn[rsess[r]] # None => peer[conn[rsess[r]]] # "stalled"
    /\ \A w \in ShotTarget(rsess[r]) : shots[w] < MaxShots
    /\ shots' = [w \in Observers |->
                   IF w \in ShotTarget(rsess[r]) THEN shots[w] + 1 ELSE shots[w]]
    /\ spc' = [spc EXCEPT ![r] = "loop"]
    /\ UNCHANGED <<regvars, resp, sessvars, conn, rpc, rsess, rwait, raised, ropen, stopvars, wsvars,
                   recv, updates, accepts>>

\* -------------------------------------------------- websocket_endpoint
\* A client opens /ws/{s}: the handler is suspended in websocket.accept().
WsConnect(w, s) ==
    /\ wpc[w] = "idle"
    /\ s < nextId
    /\ wsess' = [wsess EXCEPT ![w] = s]
    /\ wpc' = [wpc EXCEPT ![w] = "accepting"]
    /\ UNCHANGED <<regvars, resp, sessvars, conn, runvars, stopvars, peer, since, outvars, accepts>>

\* except WebSocketDisconnect: the entry under the session id is deleted,
\* whichever websocket it holds.
Unregister(c, s) == [c EXCEPT ![s] = None]

\* One pass of the "while True" body, with c the connections on entry: a
\* status_update if the id is in self.sessions, then sleep(1).  A send to a peer
\* that is gone raises: WebSocketDisconnect, which the handler catches, or the
\* server's own exception, which it does not (which one depends on the
\* installed starlette).
WsIterate(w, c) ==
    IF wsess[w] \notin sessions
    THEN /\ wpc' = [wpc EXCEPT ![w] = "loop"]
         /\ conn' = c
         /\ UNCHANGED updates
    ELSE IF peer[w] = "open"
    THEN /\ updates[w] < MaxUpdates
         /\ updates' = [updates EXCEPT ![w] = @ + 1]
         /\ wpc' = [wpc EXCEPT ![w] = "loop"]
         /\ conn' = c
    ELSE \/ /\ wpc' = [wpc EXCEPT ![w] = "closed"]
            /\ conn' = Unregister(c, wsess[w])
            /\ UNCHANGED updates
         \/ /\ wpc' = [wpc EXCEPT ![w] = "crashed"]
            /\ conn' = c
            /\ UNCHANGED updates

\* self.active_connections[session_id] = websocket: one slot per session id.
Register(c, s, w) == [c EXCEPT ![s] = w]

\* accept() returned: the websocket is stored and the loop is entered.
WsRegister(w) ==
    /\ wpc[w] = "accepting"
    /\ since' = [since EXCEPT ![w] =
                   IF wsess[w] \in SessionIds THEN Len(logs[wsess[w]]) ELSE 0]
    /\ WsIterate(w, Register(conn, wsess[w], w))
    /\ UNCHANGED <<regvars, resp, sessvars, runvars, stopvars, wsess, peer, recv, shots, accepts>>

\* sleep(1) returned: the next pass, whose send is awaited while the peer does
\* not read.
WsTick(w) ==
    /\ wpc[w] = "loop"
    /\ wsess[w] \in sessions => peer[w] # "stalled"
    /\ WsIterate(w, conn)
    /\ UNCHANGED <<regvars, resp, sessvars, runvars, stopvars, wsess, peer, since, recv,
                   shots, accepts>>

\* The remote end of a connected websocket goes away.
PeerGone(w) ==
    /\ wpc[w] = "loop"
    /\ peer[w] # "gone"
    /\ peer' = [peer EXCEPT ![w] = "gone"]
    /\ UNCHANGED <<regvars, resp, sessvars, conn, runvars, stopvars, wpc, wsess, since,
                   outvars, accepts>>

\* The remote end stops reading and stays connected: once the buffers between
\* the two ends are full, a send to it does not return.
PeerStalls(w) ==
    /\ wpc[w] = "loop"
    /\ peer[w] = "open"
    /\ peer' = [peer EXCEPT ![w] = "stalled"]
    /\ UNCHANGED <<regvars, resp, sessvars, conn, runvars, stopvars, wpc, wsess, since,
                   outvars, accepts>>

\* The send_json a run is suspended in ends when the peer goes: it raises,
\* the bare except of _log_to_session swallows it, and the run goes on.
SendReturns(r) ==
    /\ rwait[r] # None
    /\ peer[rwait[r]] # "stalled"
    /\ rwait' = [rwait EXCEPT ![r] = None]
    /\ UNCHANGED <<regvars, resp, sessvars, conn, rpc, rsess, ropen, raised, spc, stopvars,
                   wsvars, outvars, accepts>>

\* A step of the coroutine of run r: the awaited call returns or raises.
RunnerStep(r) ==
    \/ RunBegin(r) \/ RunLaunch(r) \/ RunNewContext(r) \/ RunNewPage(r)
    \/ RunSetup(r) \/ RunMonitor(r) \/ RunAgentDone(r) \/ RunExcept(r)
    \/ RunFinally(r) \/ SendReturns(r)

\* A step of run r or of its screenshot sampler.
RunStep(r) == RunnerStep(r) \/ SamplerCheck(r) \/ SamplerSend(r)

\* ------------------------------------------------------------- the system
\* The HTTP handlers and the background tasks, with at most ns sessions
\* created and runs 1..nr.
Supervisor(ns, nr) ==
    \/ \E t \in Tasks : nextId <= ns /\ CreateSession(t)
    \/ \E s \in AnyId, r \in 1..nr : StartSession(s, r)
    \/ \E k \in 1..MaxStops, s \in AnyId : StopBegin(k, s)
    \/ \E k \in 1..MaxStops : StopPageClosed(k)
    \/ \E k \in 1..MaxStops : StopBrowserClosed(k)
    \/ \E r \in 1..nr : RunBegin(r)
    \/ \E r \in 1..nr : RunLaunch(r)
    \/ \E r \in 1..nr : RunNewContext(r)
    \/ \E r \in 1..nr : RunNewPage(r)
    \/ \E r \in 1..nr : RunSetup(r)
    \/ \E r \in 1..nr : RunMonitor(r)
    \/ \E r \in 1..nr : RunAgentDone(r)
    \/ \E r \in 1..nr : RunExcept(r)
    \/ \E r \in 1..nr : RunFinally(r)
    \/ \E r \in 1..nr : SamplerCheck(r)
    \/ \E r \in 1..nr : SamplerSend(r)

\* The websocket handlers and their peers.
Gateway ==
    \/ \E w \in Observers, s \in AnyId : WsConnect(w, s)
    \/ \E w \in Observers : WsRegister(w)
    \/ \E w \in Observers : WsTick(w)
    \/ \E w \in Observers : PeerGone(w)

\* Requests and overlapping runs of a session, nobody watching.
Next == Supervisor(MaxSessions, MaxRuns)

Spec == Init /\ [][Next]_vars

\* One run at a time, watched by several websockets.
NextObs == Supervisor(MaxSessions, ObsRuns) \/ Gateway

SpecObs == Init /\ [][NextObs]_vars

\* One run watched by websockets whose peers may stop reading.
NextStall ==
    \/ NextObs
    \/ \E w \in Observers : PeerStalls(w)
    \/ \E r \in 1..ObsRuns : SendReturns(r)

SpecStall == Init /\ [][NextStall]_vars

\* The HTTP API seen by its clients: the handlers, several sessions and one
\* run, responses kept.
NextApi == Supervisor(ApiSessions, ObsRuns)

SpecApi == InitApi /\ [][NextApi]_vars

\* A session with a long log is started once more.
NextLong == Supervisor(ApiSessions, ObsRuns)

SpecLong == InitLong /\ [][NextLong]_vars

\* A session with a past and a new one, one run between them, each session
\* watched by a websocket of its own: websocket w is opened for session w.
NextIso ==
    \/ Supervisor(ApiSessions, ObsRuns)
    \/ \E w \in Observers : WsConnect(w, w)
    \/ \E w \in Observers : WsRegister(w)
    \/ \E w \in Observers : WsTick(w)
    \/ \E w \in Observers : PeerGone(w)

SpecIso == InitIso /\ [][NextIso]_vars

\* One session and one run, with DELETE requests that overlap.
NextStops ==
    \/ Supervisor(MaxSessions, ObsRuns)
    \/ \E k \in Stops, s \in AnyId : StopBegin(k, s)
    \/ \E k \in Stops : StopPageClosed(k)
    \/ \E k \in Stops : StopBrowserClosed(k)

SpecStops == Init /\ [][NextStops]_vars

\* One run watched by the websocket of its session, whose peer may stop
\* reading.  Every call the run awaits returns or raises in the end, and the
\* event loop resumes the run when it does: each run gets its next step.
NextHang ==
    \/ Supervisor(MaxSessions, ObsRuns)
    \/ \E w \in Observers : WsConnect(w, w)
    \/ \E w \in Observers : WsRegister(w)
    \/ \E w \in Observers : WsTick(w)
    \/ \E w \in Observers : PeerGone(w)
    \/ \E w \in Observers : PeerStalls(w)
    \/ \E r \in 1..ObsRuns : SendReturns(r)

SpecHang ==
    /\ Init /\ [][NextHang]_vars
    /\ \A r \in 1..ObsRuns : WF_vars(RunnerStep(r))

\* Sessions created and deleted while websockets watch, no run started.  The
\* event loop resumes every handler that is ready: each websocket handler
\* gets its next step.
NextWatch ==
    \/ \E t \in Tasks : nextId <= MaxSessions /\ CreateSession(t)
    \/ \E k \in 1..MaxStops, s \in AnyId : StopBegin(k, s)
    \/ Gateway

SpecWatch ==
    /\ Init /\ [][NextWatch]_vars
    /\ \A w \in Observers : WF_vars(WsRegister(w)) /\ WF_vars(WsTick(w))

\* ------------------------------------------------------------ the claims
\* A background task that start_session made and that has not ended.
Active(r) == rpc[r] \notin {"unborn", "done", "crashed"}

RunsOf(s) == {r \in Runs : rsess[r] = s}

Terminal == {"completed", "error"}

\* C1: every session has at most one active background task at any time.
C1_AtMostOneActiveRun ==
    \A s \in SessionIds : Cardinality({r \in RunsOf(s) : Active(r)}) <= 1

\* C2: of the start calls made on a session while it is idle, exactly one is
\* accepted; the others are rejected as already running.
C2_OneStartWins ==
    \A s \in SessionIds : accepts[s] <= 1

\* C3: when stop(id) has returned, every run of that session has ended, its
\* sampler has ended, and every resource it opened is released.
C3_StopAwaitsRelease ==
    \A k \in Stops : kpc[k] = "returned" =>
        \A r \in RunsOf(ksess[k]) :
            /\ ~Active(r)
            /\ spc[r] \in {"none", "done"}
            /\ ropen[r] = {}

\* stop(s) has returned.
Stopped(s) == \E k \in Stops : kpc[k] = "returned" /\ ksess[k] = s

\* C4: once stop(id) has returned, no log, screenshot or status_update event
\* is sent to any websocket connected for that id.
C4_NoEventAfterStop ==
    [][\A w \in Observers : Stopped(wsess[w]) =>
          /\ recv'[w] = recv[w]
          /\ shots'[w] = shots[w]
          /\ updates'[w] = updates[w]]_vars

\* C5: a status that is Completed or Failed never changes again.
C5_TerminalIsFinal ==
    [][\A s \in SessionIds : status[s] \in Terminal => status'[s] = status[s]]_vars

\* The record holds a browser context or page handle.
HoldsHandle(s) == browser[s] # None \/ page[s] # None

\* C6: a session holds a run handle exactly when its status is Running.
C6_HandleIffRunning ==
    \A s \in SessionIds : status[s] # "none" =>
        (HoldsHandle(s) <=> status[s] = "running")

\* C7: a run that has exited has released every resource it opened.
C7_ExitReleasesAll ==
    \A r \in Runs : rpc[r] = "done" => ropen[r] = {}

\* The error-level entries run r has in the log of its session.
ErrorEntries(r) ==
    {i \in DOMAIN logs[rsess[r]] :
        logs[rsess[r]][i].level = "error" /\ logs[rsess[r]][i].run = r}

\* The step in which run r's "except Exception" catches an exception.
Caught(r) == ~raised[r] /\ raised'[r]

\* The step in which page.screenshot() raises in run r's sampler.
ShotFailed(r) == spc[r] # "failed" /\ spc'[r] = "failed"

\* The step appends one error-level entry of run r to the log of its session.
LogsError(r) ==
    logs'[rsess[r]] = Append(logs[rsess[r]], Entry("error", "error", r))

Attached(w) == wpc[w] = "loop" /\ peer[w] = "open"

\* The entries appended to the session's log since websocket w was stored.
PublishedSince(w) ==
    SubSeq(logs[wsess[w]], since[w] + 1, Len(logs[wsess[w]]))

\* C9: with two websockets on the same session, each one that is attached has
\* been sent every log entry appended since it was stored, whether the other
\* is still attached or has disconnected.
C9_BothReceive ==
    \A w \in Observers, v \in Observers :
        ( /\ w # v
          /\ wsess[w] = wsess[v]
          /\ wsess[w] \in sessions
          /\ Attached(w)
          /\ wpc[v] \in {"loop", "closed", "crashed"} )
        => recv[w] = PublishedSince(w)

\* C10: a websocket that stays attached to a registered session has been sent
\* exactly the entries appended since it was stored, in the order of the log.
C10_InLogOrder ==
    \A w \in Observers :
        (Attached(w) /\ wsess[w] \in sessions) => recv[w] = PublishedSince(w)

\* C11: after the peer of a stored websocket has gone, its entry in
\* active_connections is eventually removed, whether or not the session is in
\* the registry.
C11_DisconnectedIsRemoved ==
    \A w \in Observers :
        (wpc[w] = "loop" /\ peer[w] = "gone" /\ conn[wsess[w]] = w)
            ~> (conn[wsess[w]] # w)

\* C12: a run is never suspended waiting for a websocket: appending a log
\* entry does not make the runner wait for the subscriber.
C12_ProducerNeverWaits == \A r \in Runs : rwait[r] = None

\* A stop request has named the session.
StopAsked(s) == \E k \in Stops : kpc[k] # "idle" /\ ksess[k] = s

\* Run r is the only run of its session, no stop was asked for it, nothing
\* raised in it, and its agent loop has returned.
HappyRun(r) ==
    /\ rpc[r] \in {"finally", "done"}
    /\ ~raised[r]
    /\ RunsOf(rsess[r]) = {r}
    /\ ~StopAsked(rsess[r])

\* The positions of the log of s whose message is m.
At(s, m) == {i \in 1..Len(logs[s]) : logs[s][i].msg = m}

\* C13: a session started once and not stopped, whose run acquired its
\* resources and whose agent loop returned, has status completed, and its log
\* holds the "initialized" entry and, later, the completion entry.
C13_HappyPathCompletes ==
    \A r \in Runs : HappyRun(r) =>
        /\ status[rsess[r]] = "completed"
        /\ \E i \in At(rsess[r], "initialized"), j \in At(rsess[r], "completed") : i < j
        /\ logs[rsess[r]][Len(logs[rsess[r]])].level = "success"
        /\ At(rsess[r], "error") = {}

C13_Witness == \E r \in Runs : HappyRun(r) /\ rpc[r] = "done"

\* Everything but the response.
state == <<regvars, sessvars, conn, runvars, stopvars, wsvars, outvars, accepts>>

\* C14: create with an empty task answers 400 and changes nothing: no
\* session is added and none is modified.
C14_EmptyTaskRejected ==
    [][/\ CreateSession("") => resp' = Response("create", 400, 0) /\ UNCHANGED state
       /\ resp' # resp /\ resp'.op = "create" /\ resp'.code = 400 => UNCHANGED state]_vars

C14_Witness == resp = Response("create", 400, 0) /\ sessions # {}

\* C15: start and stop on an id that is not in the registry answer 404 and
\* change nothing but the request's own record: no session is created, no run
\* spawned, no session or connection modified.
C15_UnknownIdNotFound ==
    [][\A s \in AnyId : s \notin sessions =>
         /\ \A r \in Runs : StartSession(s, r) =>
                resp' = Response("start", 404, 0) /\ UNCHANGED state
         /\ \A k \in Stops : StopBegin(k, s) =>
                /\ resp' = Response("stop", 404, 0)
                /\ kpc'[k] = "notfound"
                /\ UNCHANGED <<regvars, sessvars, conn, runvars, wsvars, outvars, accepts>>]_vars

C15_Witness ==
    /\ resp = Response("start", 404, 0)
    /\ \E k \in Stops : kpc[k] = "notfound"
    /\ sessions # {}

\* C16: create with a non-empty task returns an id, and the snapshot of that
\* id right after has that task, status idle and an empty log.
C16_CreatedIsIdle ==
    [][\A t \in Tasks : t # "" /\ CreateSession(t) =>
         \E id \in SessionIds :
            /\ resp' = Response("create", 200, id)
            /\ id \in sessions' \ sessions
            /\ ToDict(id)' = [session_id |-> id, status |-> "idle", task |-> t,
                              logs |-> <<>>]
            /\ \E i \in 1..Len(ListSessions.sessions') :
                  ListSessions.sessions'[i] = ToDict(id)']_vars

C16_Witness ==
    /\ resp.op = "create" /\ resp.code = 200
    /\ resp.id \in sessions
    /\ ToDict(resp.id).status = "idle"
    /\ sessions # {resp.id}

\* The snapshot of s holds the last min(LogLimit, n) entries of its n-entry
\* log, in the order of the log.
SnapshotIsTail(s) ==
    LET n == Len(logs[s])
        d == ToDict(s).logs
        m == IF n < LogLimit THEN n ELSE LogLimit
    IN /\ Len(d) = m
       /\ \A i \in 1..m : d[i] = logs[s][n - m + i]

\* The log of s after the step is the log before it, with entries appended.
AppendOnly(s) ==
    /\ Len(logs'[s]) >= Len(logs[s])
    /\ \A i \in 1..Len(logs[s]) : logs'[s][i] = logs[s][i]

\* C17: a snapshot's log is the most recent min(50, n) entries of the
\* session's n-entry log in append order, the oldest dropped, and the log
\* itself is append-only.
C17_SnapshotIsRecentTail ==
    /\ [](\A s \in sessions : SnapshotIsTail(s))
    /\ [][\A s \in SessionIds : AppendOnly(s)]_vars

C17_Witness ==
    \E r \in Runs : /\ rpc[r] = "done"
                     /\ rsess[r] \in sessions
                     /\ Len(logs[rsess[r]]) > LogLimit
                     /\ Len(ToDict(rsess[r]).logs) = LogLimit

\* The step is an operation on session a: its creation, a request that names
\* it, a step of a run or sampler started for it, or a step of a websocket
\* opened for it (connect, pass of the loop, failed send, peer going away).
OnSession(a) ==
    \/ \E t \in Tasks : nextId = a /\ CreateSession(t)
    \/ \E r \in Runs : StartSession(a, r)
    \/ \E k \in Stops : StopBegin(k, a)
    \/ \E k \in Stops : ksess[k] = a /\ (StopPageClosed(k) \/ StopBrowserClosed(k))
    \/ \E r \in Runs : rsess[r] = a /\ RunStep(r)
    \/ \E w \in Observers : WsConnect(w, a)
    \/ \E w \in Observers : wsess[w] = a /\ (WsRegister(w) \/ WsTick(w) \/ PeerGone(w))

\* Nothing of session b changes in the step: its record, its place in the
\* registry, its connection, its runs and what they hold open, its websockets
\* and what they received.
Untouched(b) ==
    /\ status'[b] = status[b] /\ task'[b] = task[b] /\ logs'[b] = logs[b]
    /\ browser'[b] = browser[b] /\ page'[b] = page[b]
    /\ (b \in sessions') = (b \in sessions)
    /\ conn'[b] = conn[b]
    /\ \A r \in Runs : rsess[r] = b =>
          /\ rsess'[r] = b /\ rpc'[r] = rpc[r] /\ spc'[r] = spc[r]
          /\ ropen'[r] = ropen[r] /\ raised'[r] = raised[r]
    /\ \A w \in Observers : wsess[w] = b =>
          /\ wsess'[w] = b /\ wpc'[w] = wpc[w] /\ peer'[w] = peer[w]
          /\ recv'[w] = recv[w] /\ shots'[w] = shots[w] /\ updates'[w] = updates[w]

\* C18: an operation on session a, or a failure in it, changes nothing of any
\* other session b.
C18_SessionsIsolated ==
    [][\A b \in SessionIds :
         Untouched(b) \/ \A a \in AnyId \ {b} : ~OnSession(a)]_vars

\* Session 1 keeps what it had and its websocket, after the run of session 2
\* raised, session 2 was stopped and the peer of its websocket went away.
C18_Witness ==
    /\ sessions = {1} /\ status[1] = "error" /\ Len(logs[1]) = 2
    /\ \E w \in Observers : conn[1] = w /\ wsess[w] = 1 /\ updates[w] > 0
    /\ \E r \in Runs : rsess[r] = 2 /\ raised[r] /\ rpc[r] = "done"
    /\ \E k \in Stops : ksess[k] = 2 /\ kpc[k] = "returned"
    /\ \E w \in Observers : wsess[w] = 2 /\ peer[w] = "gone"

\* The ids create has issued, and those a stop has removed.
Issued == {s \in SessionIds : status[s] # "none"}

Removed == {ksess[k] : k \in {j \in Stops : kpc[j] = "returned"}}

\* The list holds the snapshot of each id of L once, and nothing else.
ListsExactly(L) ==
    LET l == ListSessions.sessions
    IN /\ Len(l) = Cardinality(L)
       /\ \A s \in L : \E i \in 1..Len(l) : l[i] = ToDict(s)
       /\ \A i, j \in 1..Len(l) : l[i].session_id = l[j].session_id => i = j

\* C19: list returns one snapshot for each id created and not removed by a
\* stop that succeeded, the total it reports and the count of /health are
\* that number, and create never returns an id issued before.
C19_ListMatchesRegistry ==
    /\ [](/\ ListsExactly(Issued \ Removed)
          /\ ListSessions.total = Cardinality(Issued \ Removed)
          /\ HealthCheck.sessions = Cardinality(Issued \ Removed))
    /\ [][\A t \in Tasks : t # "" /\ CreateSession(t) =>
            resp'.id \notin Issued /\ Issued' = Issued \cup {resp'.id}]_vars

C19_Witness ==
    /\ Cardinality(Issued) = 2
    /\ Cardinality(Removed) = 1
    /\ \E r \in Runs : rpc[r] = "done"
    /\ Len(ListSessions.sessions) = 1

\* Run r's sampler sends a screenshot to a websocket in this step.
EmitsFrame(r) == SamplerSend(r) /\ shots' # shots

\* C20: the sampler of a run sends a frame only while the status of its
\* session is running.
C20_FramesOnlyWhileRunning ==
    [][\A r \in Runs : EmitsFrame(r) => status[rsess[r]] = "running"]_vars

\* C21: once an accepted start has returned (its task is created and has not
\* yet run), the status of the session is already running.
C21_AcceptedIsRunning ==
    \A r \in Runs :
        rpc[r] = "spawned" /\ rsess[r] \in sessions => status[rsess[r]] = "running"

\* Websocket w is sent an event of any kind in this step.
Receives(w) == recv'[w] # recv[w] \/ shots'[w] # shots[w] \/ updates'[w] # updates[w]

\* C22: a websocket opened for an id that is not in the registry is accepted
\* and is sent nothing while the id is not there.
C22_NothingForUnknownId ==
    [][\A w \in Observers :
         wpc[w] \in {"accepting", "loop"} /\ wsess[w] \notin sessions => ~Receives(w)]_vars

\* A send to the websocket stored for s raises: its peer is gone.
DeliveryFails(s) == s \in sessions /\ conn[s] # None /\ peer[conn[s]] = "gone"

\* The steps of run r that write a log line.
LogStep(r) ==
    RunBegin(r) \/ RunNewPage(r) \/ RunSetup(r) \/ RunAgentDone(r) \/ RunExcept(r)

\* The status a step of run r leaves, whatever becomes of the delivery.
StatusAfter(r) ==
    IF RunBegin(r) THEN "running"
    ELSE IF RunAgentDone(r) THEN "completed"
    ELSE IF RunExcept(r) THEN "error"
    ELSE status[rsess[r]]

\* C23: when the send of a log or screenshot event raises, the log entry is
\* recorded all the same, the run or sampler goes on to its next step without
\* an exception of its own, and the status is what the step sets.
C23_FailedDeliveryIsHarmless ==
    [][\A r \in Runs : DeliveryFails(rsess[r]) =>
         /\ LogStep(r) =>
               /\ Len(logs'[rsess[r]]) = Len(logs[rsess[r]]) + 1
               /\ rpc'[r] \in {"launch", "setup", "monitor", "finally"}
               /\ rwait'[r] = None
               /\ raised'[r] = (raised[r] \/ RunExcept(r))
               /\ status'[rsess[r]] = StatusAfter(r)
         /\ SamplerSend(r) =>
               /\ spc'[r] = "loop"
               /\ UNCHANGED <<status, logs, rpc, raised>>]_vars

\* A run has completed although the websocket of its session, registered
\* before the first log line, lost its peer on the way.
C23_Witness ==
    \E r \in Runs, w \in Observers :
        /\ rpc[r] = "done" /\ rsess[r] \in sessions
        /\ status[rsess[r]] = "completed"
        /\ conn[rsess[r]] = w /\ peer[w] = "gone" /\ since[w] = 0
        /\ Len(recv[w]) < Len(logs[rsess[r]])

\* C24: no stop request ends in an unhandled error: of two stops of the same
\* session one succeeds and the other answers not found.
C24_NoStopCrashes == \A k \in Stops : kpc[k] # "keyerror"

\* C25: the first step of a run whose session was deleted after the start
\* was accepted ends the run without an exception leaving the task, and
\* without a resource opened.
C25_LateRunnerEndsCleanly ==
    [][\A r \in Runs : RunBegin(r) /\ rsess[r] \notin sessions =>
          rpc'[r] = "done" /\ ropen'[r] = {}]_vars

\* C26: every accepted start of a session that is not deleted leads to a
\* terminal status.
C26_StartLeadsToTerminal ==
    \A r \in Runs :
        (rpc[r] = "spawned" /\ rsess[r] \in sessions)
            ~> (rsess[r] \notin sessions \/ status[rsess[r]] \in Terminal)
====
